---- MODULE Spec2Model ----
(***************************************************************************)
(* State-machine model of SteamProfileCommentParser (src/src/parser.py):   *)
(* one parser object, one parse_profile call, the page loop of             *)
(* _parse_all_pages_optimized, the per-block admission of                  *)
(* _parse_comments_from_html and the page URL builder _get_page_url.       *)
(***************************************************************************)
EXTENDS Integers, Sequences, FiniteSets, TLC

\* ------------------------------------------------------------------ bounds

\* Largest number of listing pages the announced total count stands for.
MaxListingPages == 5

\* Largest page number a caller passes to _get_page_url directly.
MaxProbePage == 2

\* Largest number of key=value pairs in a listing URL's query.
MaxQueryLen == 2

\* --------------------------------------------------------- program constants

\* self.comments_per_page = 50
comments_per_page == 50

\* modulus of the synthesized id: hash(comment_text) % 1000000
HashModulus == 1000000

\* default of parse_profile's max_pages (and of the prompt in main)
DefaultMaxPages == 200

\* ------------------------------------------------------------------- texts

\* The text of a comment is a sequence of tokens; WS is a run of whitespace
\* and SYS is the sentence "Это сообщение ещё не проанализировано нашей
\* системой" of line 278.
WS == " "
SYS == "not-yet-analyzed"

RawTexts ==
    { <<>>, <<WS>>, <<WS, "hi", WS>>, <<"hi", WS, SYS>> }

RECURSIVE LStrip(_)
LStrip(t) == IF t # <<>> /\ Head(t) = WS THEN LStrip(Tail(t)) ELSE t

RECURSIVE RStrip(_)
RStrip(t) ==
    IF t # <<>> /\ t[Len(t)] = WS THEN RStrip(SubSeq(t, 1, Len(t) - 1)) ELSE t

\* str.strip(), also what get_text(strip=True) does to a single text node
Strip(t) == RStrip(LStrip(t))

\* substring test `needle in text` for a one-token needle
Contains(t, tok) == \E i \in 1..Len(t) : t[i] = tok

\* -------------------------------------------------------------------- urls

\* A URL is its scheme, netloc, path segments and query; the query is the
\* sequence of key/value pairs in the order written, "" the blank value.
Url(s, n, p, q) == [scheme |-> s, netloc |-> n, path |-> p, query |-> q]

\* None and "" (both falsy in `if not self.base_comments_url`)
NoUrl == Url("", "", <<>>, <<>>)

Host == "steamcommunity.com"

\* ---------------------------------------------------------- query strings

\* The distinct elements of a sequence, in order of first occurrence.
RECURSIVE FirstOccurrences(_)
FirstOccurrences(s) ==
    IF s = <<>> THEN <<>>
    ELSE LET init == FirstOccurrences(SubSeq(s, 1, Len(s) - 1))
             x == s[Len(s)]
         IN IF \E i \in 1..Len(init) : init[i] = x THEN init ELSE Append(init, x)

\* urllib.parse.parse_qs(query) with its default keep_blank_values=False:
\* a dict key -> list of values, keys in insertion order; a pair whose value
\* is blank is dropped.  The dict is a sequence of <<key, values>>.
ParseQs(q) ==
    LET kept == SelectSeq(q, LAMBDA kv : kv[2] # "")
        keys == FirstOccurrences([i \in 1..Len(kept) |-> kept[i][1]])
        vals(k) == LET ks == SelectSeq(kept, LAMBDA kv : kv[1] = k)
                   IN [i \in 1..Len(ks) |-> ks[i][2]]
    IN [i \in 1..Len(keys) |-> <<keys[i], vals(keys[i])>>]

\* `key in query_params`
HasKey(d, k) == \E i \in 1..Len(d) : d[i][1] = k

\* query_params[key] = values: overwrite in place, or insert at the end
SetItem(d, k, vs) ==
    IF HasKey(d, k)
      THEN [i \in 1..Len(d) |-> IF d[i][1] = k THEN <<k, vs>> ELSE d[i]]
      ELSE Append(d, <<k, vs>>)

\* urllib.parse.urlencode(query_params, doseq=True): one pair per value
RECURSIVE UrlEncode(_)
UrlEncode(d) ==
    IF d = <<>> THEN <<>>
    ELSE LET k == d[1][1]
             vs == d[1][2]
         IN [i \in 1..Len(vs) |-> <<k, vs[i]>>] \o UrlEncode(Tail(d))

\* A variant of the builder that always rebuilds the URL from the parsed
\* query, page 1 included.
GetPageUrlAlwaysRebuild(base, page) ==
    IF base = NoUrl THEN NoUrl
    ELSE [base EXCEPT !.query =
              UrlEncode(SetItem(ParseQs(base.query), "p", <<ToString(page)>>))]

\* _get_page_url(page_num) for self.base_comments_url = base
GetPageUrl(base, page) ==
    IF base = NoUrl THEN NoUrl
    ELSE LET query_params == ParseQs(base.query)
         IN IF page = 1 /\ ~HasKey(query_params, "p")
              THEN base
              ELSE [base EXCEPT !.query =
                        UrlEncode(SetItem(query_params, "p", <<ToString(page)>>))]

\* --------------------------------------------------------- comment blocks

Users == {"ann", "bob"}

\* The id attribute of a block as a sequence of tokens; <<>> is a block
\* with no id attribute.
IdAttrs == { <<>>, <<"comment_", "c1">>, <<"c1">> }

Timestamps == {"t1"}

\* One comment block of a page's markup.  kind "ok" has an author link;
\* "noauthor" has none; "raises" makes the field extraction throw.
Block(k, u, i, t, ts) ==
    [kind |-> k, user |-> u, idattr |-> i, text |-> t, timestamp |-> ts]

OkBlocks ==
    { Block("ok", u, i, t, ts) :
        u \in Users, i \in IdAttrs, t \in RawTexts, ts \in Timestamps }

AllBlocks ==
    OkBlocks \cup { Block("noauthor", "", <<"c1">>, <<"hi">>, "t1"),
                    Block("raises", "ann", <<"c1">>, <<"hi">>, "t1") }

\* hash(str): Python salts str hashes per process (seed); hash("") is 0.
\* The hash is kept to 24 bits here, enough to exceed HashModulus.
TokenCode(tok) ==
    CASE tok = "hi" -> 104
      [] tok = "yo" -> 121
      [] tok = WS   -> 32
      [] OTHER      -> 7

RECURSIVE StrHash(_, _)
StrHash(t, seed) ==
    IF t = <<>> THEN 0
    ELSE (StrHash(SubSeq(t, 1, Len(t) - 1), seed) * 31
            + TokenCode(t[Len(t)]) + seed * 1009) % 16777216

\* lines 384-390: the id attribute with every "comment_" removed when it
\* starts with "comment_"; when that leaves nothing, the synthesized id
\* f"{user_name}_{timestamp}_{hash(comment_text) % 1000000}"
CommentId(b, comment_text, seed) ==
    LET attr == b.idattr
        stripped == IF attr # <<>> /\ Head(attr) = "comment_"
                      THEN SelectSeq(attr, LAMBDA tok : tok # "comment_")
                      ELSE attr
    IN IF stripped # <<>> THEN stripped
       ELSE << b.user, "_", b.timestamp, "_",
               ToString(StrHash(comment_text, seed) % HashModulus) >>

\* What _parse_single_comment returns when it returns None.
NoRecord ==
    [found |-> FALSE, user |-> "", comment_text |-> <<>>, timestamp |-> "",
     comment_id |-> <<>>]

\* _parse_single_comment(comment_element): None when the author link is
\* missing or when anything throws, else the record (the fields the crawl
\* reads; steam_id, profile_url, avatar_url, status and parsed_time are
\* carried along untouched and left out).
ParseSingleComment(b, seed) ==
    IF b.kind # "ok" THEN NoRecord
    ELSE LET comment_text == Strip(b.text)
         IN [found |-> TRUE, user |-> b.user, comment_text |-> comment_text,
             timestamp |-> b.timestamp,
             comment_id |-> CommentId(b, comment_text, seed)]

\* lines 274 and 278: the two filters of _parse_comments_from_html
IsEmptyText(t) == t = <<>> \/ Strip(t) = <<>>
IsSystemText(t) == Contains(t, SYS)

\* ------------------------------------------------------ pagination resolver

\* What the first page's markup offers the resolver: the
\* InitializeCommentThread script, the "all comments" anchor (its "(n)" text
\* and its href), the totalcount element and g_rgProfileData's steamid.
Strategy(st, n) == [st |-> st, n |-> n]

NoHref == [kind |-> "none", path |-> <<>>, query |-> <<>>, url |-> NoUrl]
RootRelHref(p, q) == [kind |-> "rootrel", path |-> p, query |-> q, url |-> NoUrl]
AbsHref(u) == [kind |-> "abs", path |-> <<>>, query |-> <<>>, url |-> u]

Markup(sc, an, href, el, sid) ==
    [script |-> sc, anchor |-> an, href |-> href, elem |-> el, steamid |-> sid]

\* The resolver without its third method (lines 133-139).
GetTotalCommentsCountTwoMethods(m) ==
    IF m.script.st = "ok" THEN m.script.n
    ELSE IF m.anchor.st = "ok" THEN m.anchor.n
    ELSE 0

\* _get_total_comments_count(soup): script, then anchor text, then element;
\* a method whose state is not "ok" returns nothing (the script is not there,
\* does not match line 115's pattern, is not JSON, has no total_count, or
\* int() refuses its value; the anchor is not there or its text has no "(n)";
\* the element is not there or int() refuses its text)
GetTotalCommentsCount(m) ==
    IF m.script.st = "ok" THEN m.script.n
    ELSE IF m.anchor.st = "ok" THEN m.anchor.n
    ELSE IF m.elem.st = "ok" THEN m.elem.n
    ELSE 0

\* _normalize_url(url, base_url) for a root-relative or an absolute href
NormalizeUrl(href, base_url) ==
    IF href.kind = "rootrel"
      THEN Url("https", base_url.netloc, href.path, href.query)
      ELSE href.url

NumericSegments == {"765"}

\* index of the first segment equal to name that another segment follows
\* (the text "/name/" of the URL), 0 when there is none
SegmentAfter(path, name) ==
    LET hits == { i \in 1..(Len(path) - 1) : path[i] = name }
    IN IF hits = {} THEN 0
       ELSE 1 + CHOOSE i \in hits : \A j \in hits : i <= j

\* _get_all_comments_url(soup, base_url): anchor href, then the profile
\* data's steamid, then the pattern of the requested URL; NoUrl is None.
GetAllCommentsUrl(m, base_url) ==
    IF m.anchor.st # "absent" /\ m.href.kind # "none"
      THEN NormalizeUrl(m.href, base_url)
    ELSE IF m.steamid # ""
      THEN Url("https", Host, <<"profiles", m.steamid, "allcomments">>, <<>>)
    ELSE IF SegmentAfter(base_url.path, "profiles") # 0
      THEN LET seg == base_url.path[SegmentAfter(base_url.path, "profiles")]
           IN IF seg \in NumericSegments
                THEN Url("https", Host, <<"profiles", seg, "allcomments">>, <<>>)
                ELSE NoUrl
    ELSE IF SegmentAfter(base_url.path, "id") # 0
      THEN Url("https", Host,
               <<"id", base_url.path[SegmentAfter(base_url.path, "id")],
                 "allcomments">>, <<>>)
    ELSE NoUrl

\* math.ceil(total_comments / self.comments_per_page)
CeilDiv(a, b) == (a + b - 1) \div b

Min(a, b) == IF a <= b THEN a ELSE b

\* lines 72-74: the number of pages to parse; `if max_pages:` is false for 0
TotalPages(total, max_pages) ==
    LET pages == CeilDiv(total, comments_per_page)
    IN IF max_pages # 0 THEN Min(pages, max_pages) ELSE pages

\* ------------------------------------------------------------------- state

VARIABLES
    pc,                     \* where the program is: "idle", "page1", "loop",
                            \* "page", "returned"
    hash_seed,              \* the process's str-hash salt
    profile_url,            \* self.profile_url
    base_comments_url,      \* self.base_comments_url
    comments_data,          \* self.comments_data: user -> [count, comments]
    total_comments,         \* self.total_comments
    seen_comment_ids,       \* self.seen_comment_ids
    max_pages,              \* parse_profile's argument
    total_count,            \* parse_profile's local total_comments
    branch,                 \* which branch of lines 63-91 was taken
    total_pages,            \* parse_profile's local total_pages
    page_num,               \* the loop variable of line 198
    no_new_comments_pages,  \* _parse_all_pages_optimized's counter
    comments_count,         \* _parse_comments_from_html's local counter
                            \* (0 outside the call)
    result,                 \* what parse_profile returned
    requests,               \* history: the session.get calls, in order
    outcome,                \* history: page number -> how that page went
    last,                   \* history: what became of the latest block of
                            \* the page being parsed
    probe,                  \* history: the latest direct _get_page_url call
    cli_url,                \* main's local profile_url, once it is read
    saved,                  \* the JSON file the previous run of main wrote
    admitting,              \* the admission the loop body is in the middle of
    first_markup,           \* history: the first page's markup
    page_hist               \* history: the page being parsed, from its start

vars ==
    << pc, hash_seed, profile_url, base_comments_url, comments_data,
       total_comments, seen_comment_ids, max_pages, total_count, branch,
       total_pages, page_num, no_new_comments_pages, comments_count,
       result, requests, outcome, last, probe, cli_url, saved, admitting,
       first_markup, page_hist >>

\* what the process holds around the parser object
main_vars == << hash_seed, cli_url, saved >>

\* the state the admission steps write
crawl_state == << seen_comment_ids, total_comments, comments_data >>

\* the locals of the page loop
loop_vars == << total_pages, page_num, no_new_comments_pages >>

\* what parse_profile fixes before the first page is parsed
call_vars ==
    << profile_url, base_comments_url, max_pages, total_count, branch,
       first_markup >>

\* no page is being parsed
NoPage == [seen |-> {}, total |-> 0, fresh |-> {}]

\* the page whose parse starts now: what was seen and counted before it
PageStart(seen, total) == [seen |-> seen, total |-> total, fresh |-> {}]

\* no admission is under way
NoAdmission == [step |-> 0, from |-> "none", data |-> << >>]

\* the salts a process may draw (PYTHONHASHSEED unset: any value)
HashSeeds == {0, 1}

\* dict(): no key
EmptyDict == << >>

NoProbe == [asked |-> FALSE, base |-> NoUrl, page |-> 0, url |-> NoUrl]

Pages == 1..MaxListingPages

\* __init__ (lines 14-35), before parse_profile is called, in a process
\* whose salt is one of seeds
Constructed(seeds) ==
    /\ pc = "idle"
    /\ hash_seed \in seeds
    /\ profile_url = NoUrl
    /\ base_comments_url = NoUrl
    /\ comments_data = EmptyDict
    /\ total_comments = 0
    /\ seen_comment_ids = {}
    /\ max_pages = DefaultMaxPages
    /\ total_count = 0
    /\ branch = "none"
    /\ total_pages = 0
    /\ page_num = 0
    /\ no_new_comments_pages = 0
    /\ comments_count = 0
    /\ result = EmptyDict
    /\ requests = << >>
    /\ outcome = [p \in Pages |-> "none"]
    /\ last = "none"
    /\ probe = NoProbe
    /\ admitting = NoAdmission
    /\ first_markup = << >>
    /\ page_hist = NoPage

\* one process; the crawl never compares ids made under different salts
Init ==
    /\ Constructed({1})
    /\ cli_url = NoUrl
    /\ saved = EmptyDict

Request(page, url) == [page |-> page, url |-> url]

\* ------------------------------------------------------------ parse_profile

\* The first fetch's exception escaping parse_profile instead of being
\* caught by line 99.
FirstFetchRaises(url, mp) ==
    /\ pc = "idle"
    /\ profile_url' = url
    /\ max_pages' = mp
    /\ requests' = Append(requests, Request(1, url))
    /\ outcome' = [outcome EXCEPT ![1] = "failed"]
    /\ pc' = "raised"
    /\ UNCHANGED << main_vars, admitting, base_comments_url, crawl_state, total_count,
                    branch, first_markup, loop_vars, comments_count, result,
                    last, probe, page_hist >>

\* lines 48-55 and 99-101: the first session.get raises RequestException
\* (network error, timeout, or raise_for_status on an HTTP error status)
FirstFetchFails(url, mp) ==
    /\ pc = "idle"
    /\ profile_url' = url
    /\ max_pages' = mp
    /\ requests' = Append(requests, Request(1, url))
    /\ outcome' = [outcome EXCEPT ![1] = "failed"]
    /\ result' = EmptyDict
    /\ pc' = "returned"
    /\ UNCHANGED << main_vars, admitting, base_comments_url, crawl_state, total_count,
                    branch, first_markup, loop_vars, comments_count, last,
                    probe, page_hist >>

\* The first page's parse error escaping parse_profile, as it would with
\* line 99's handler alone.
FirstPageErrorRaises(url, mp) ==
    /\ pc = "idle"
    /\ profile_url' = url
    /\ max_pages' = mp
    /\ requests' = Append(requests, Request(1, url))
    /\ outcome' = [outcome EXCEPT ![1] = "error"]
    /\ pc' = "raised"
    /\ UNCHANGED << main_vars, admitting, base_comments_url, crawl_state, total_count,
                    branch, first_markup, loop_vars, comments_count, result,
                    last, probe, page_hist >>

\* lines 57 and 102-106: the first page cannot be turned into a soup
FirstPageError(url, mp) ==
    /\ pc = "idle"
    /\ profile_url' = url
    /\ max_pages' = mp
    /\ requests' = Append(requests, Request(1, url))
    /\ outcome' = [outcome EXCEPT ![1] = "error"]
    /\ result' = EmptyDict
    /\ pc' = "returned"
    /\ UNCHANGED << main_vars, admitting, base_comments_url, crawl_state, total_count,
                    branch, first_markup, loop_vars, comments_count, last,
                    probe, page_hist >>

\* The first page taken down the paged branch whenever a total is
\* announced, without line 67's test of the listing URL.
FirstPageLoadedNoLinkCheck(url, mp, m) ==
    LET total == GetTotalCommentsCount(m)
    IN /\ pc = "idle"
       /\ profile_url' = url
       /\ max_pages' = mp
       /\ requests' = Append(requests, Request(1, url))
       /\ total_count' = total
       /\ IF total > 0
            THEN /\ branch' = "paged"
                 /\ base_comments_url' = GetAllCommentsUrl(m, url)
                 /\ total_pages' = TotalPages(total, mp)
            ELSE /\ branch' = "nocount"
                 /\ UNCHANGED << base_comments_url, total_pages >>
       /\ comments_count' = 0
       /\ first_markup' = m
       /\ page_hist' = PageStart(seen_comment_ids, total_comments)
       /\ pc' = "page1"
       /\ UNCHANGED << main_vars, admitting, crawl_state, page_num, no_new_comments_pages,
                       result, outcome, last, probe >>

\* lines 48-80/88/91 and 256-267: the first page is loaded and resolved, and
\* _parse_comments_from_html is about to walk its comment blocks
FirstPageLoaded(url, mp, m) ==
    LET total == GetTotalCommentsCount(m)
        all_comments_url == IF total > 0 THEN GetAllCommentsUrl(m, url) ELSE NoUrl
    IN /\ pc = "idle"
       /\ profile_url' = url
       /\ max_pages' = mp
       /\ requests' = Append(requests, Request(1, url))
       /\ total_count' = total
       /\ IF total > 0 /\ all_comments_url # NoUrl
            THEN /\ branch' = "paged"
                 /\ base_comments_url' = all_comments_url
                 /\ total_pages' = TotalPages(total, mp)
            ELSE /\ branch' = IF total > 0 THEN "nolink" ELSE "nocount"
                 /\ UNCHANGED << base_comments_url, total_pages >>
       /\ comments_count' = 0
       /\ first_markup' = m
       /\ page_hist' = PageStart(seen_comment_ids, total_comments)
       /\ pc' = "page1"
       /\ UNCHANGED << main_vars, admitting, crawl_state, page_num, no_new_comments_pages,
                       result, outcome, last, probe >>

\* ------------------------------------------------ _parse_comments_from_html

\* The loop body without the lookup in seen_comment_ids (line 284).
VerdictNoSeenCheck(comment_data, seen) ==
    IF ~comment_data.found THEN "absent"
    ELSE IF IsEmptyText(comment_data.comment_text) THEN "empty"
    ELSE IF IsSystemText(comment_data.comment_text) THEN "system"
    ELSE "admitted"

\* The loop body without the system-message filter (line 278).
VerdictNoSystemFilter(comment_data, seen) ==
    IF ~comment_data.found THEN "absent"
    ELSE IF IsEmptyText(comment_data.comment_text) THEN "empty"
    ELSE IF comment_data.comment_id \in seen THEN "seen"
    ELSE "admitted"

\* lines 272-285: what the loop body decides for one parsed block
Verdict(comment_data, seen) ==
    IF ~comment_data.found THEN "absent"
    ELSE IF IsEmptyText(comment_data.comment_text) THEN "empty"
    ELSE IF IsSystemText(comment_data.comment_text) THEN "system"
    ELSE IF comment_data.comment_id \in seen THEN "seen"
    ELSE "admitted"

\* the dict stored in the user's comments list
Stored(comment_data) ==
    [user |-> comment_data.user, comment_text |-> comment_data.comment_text,
     timestamp |-> comment_data.timestamp, comment_id |-> comment_data.comment_id]

\* line 30: the defaultdict's value for a key it does not hold yet
DefaultEntry == [count |-> 0, comments |-> << >>]

Entry(data, user) == IF user \in DOMAIN data THEN data[user] ELSE DefaultEntry

\* The store with the append but without the count's increment (line 291).
AddCommentNoCount(data, comment_data) ==
    LET user == comment_data.user
        old == Entry(data, user)
    IN [u \in DOMAIN data \cup {user} |->
          IF u = user
            THEN [count |-> old.count,
                  comments |-> Append(old.comments, Stored(comment_data))]
            ELSE data[u]]

\* The store with the record put in front of the user's earlier ones.
AddCommentInFront(data, comment_data) ==
    LET user == comment_data.user
        old == Entry(data, user)
    IN [u \in DOMAIN data \cup {user} |->
          IF u = user
            THEN [count |-> old.count + 1,
                  comments |-> << Stored(comment_data) >> \o old.comments]
            ELSE data[u]]

\* lines 290-292: comments_data[user]["count"] += 1 and
\* comments_data[user]["comments"].append(comment_data)
AddComment(data, comment_data) ==
    LET user == comment_data.user
        old == Entry(data, user)
    IN [u \in DOMAIN data \cup {user} |->
          IF u = user
            THEN [count |-> old.count + 1,
                  comments |-> Append(old.comments, Stored(comment_data))]
            ELSE data[u]]

\* history: the page so far, once the block parsed into comment_data has
\* been through the loop body: the ids the page offers for the first time
\* (a block with a record, lines 274 and 278, and the ids seen before the
\* page)
Noted(hist, comment_data) ==
    IF \/ ~comment_data.found
       \/ IsEmptyText(comment_data.comment_text)
       \/ IsSystemText(comment_data.comment_text)
       \/ comment_data.comment_id \in hist.seen
      THEN hist
    ELSE [hist EXCEPT !.fresh = @ \cup {comment_data.comment_id}]

\* The loop body without the try of lines 270-301: what a block throws
\* leaves the page parse and parse_profile returns the empty mapping.
ParseBlockNoTry(b) ==
    LET comment_data == ParseSingleComment(b, hash_seed)
        verdict == Verdict(comment_data, seen_comment_ids)
    IN /\ pc \in {"page1", "page"}
       /\ last' = verdict
       /\ page_hist' = Noted(page_hist, comment_data)
       /\ IF verdict = "admitted"
            THEN /\ seen_comment_ids' = seen_comment_ids \cup {comment_data.comment_id}
                 /\ comments_data' = AddComment(comments_data, comment_data)
                 /\ total_comments' = total_comments + 1
                 /\ comments_count' = comments_count + 1
            ELSE UNCHANGED << crawl_state, comments_count >>
       /\ IF b.kind = "raises"
            THEN pc' = "returned" /\ result' = EmptyDict
            ELSE UNCHANGED << pc, result >>
       /\ UNCHANGED << main_vars, admitting, call_vars, loop_vars, requests,
                       outcome, probe >>

\* The loop body counting a record for the page before testing whether its
\* id has been seen.
ParseBlockCountsSeen(b) ==
    LET comment_data == ParseSingleComment(b, hash_seed)
        verdict == Verdict(comment_data, seen_comment_ids)
    IN /\ pc \in {"page1", "page"}
       /\ last' = verdict
       /\ page_hist' = Noted(page_hist, comment_data)
       /\ IF verdict = "admitted"
            THEN /\ seen_comment_ids' = seen_comment_ids \cup {comment_data.comment_id}
                 /\ comments_data' = AddComment(comments_data, comment_data)
                 /\ total_comments' = total_comments + 1
            ELSE UNCHANGED crawl_state
       /\ comments_count' =
            IF verdict \in {"admitted", "seen"} THEN comments_count + 1
            ELSE comments_count
       /\ UNCHANGED << pc, main_vars, admitting, call_vars, loop_vars, result, requests,
                       outcome, probe >>

\* lines 269-301: one iteration of `for comment in comment_blocks`, on the
\* next block b of the page (a page holds any number of blocks)
ParseBlock(b) ==
    LET comment_data == ParseSingleComment(b, hash_seed)
        verdict == Verdict(comment_data, seen_comment_ids)
    IN /\ pc \in {"page1", "page"}
       /\ last' = verdict
       /\ page_hist' = Noted(page_hist, comment_data)
       /\ IF verdict = "admitted"
            THEN /\ seen_comment_ids' = seen_comment_ids \cup {comment_data.comment_id}
                 /\ comments_data' = AddComment(comments_data, comment_data)
                 /\ total_comments' = total_comments + 1
                 /\ comments_count' = comments_count + 1
            ELSE UNCHANGED << crawl_state, comments_count >>
       /\ UNCHANGED << pc, main_vars, admitting, call_vars, loop_vars, result, requests,
                       outcome, probe >>

PageOutcome(count) == IF count = 0 THEN "empty" ELSE "new"

\* The loop started with a counter that already counts an empty first page.
EndFirstPageCounted ==
    /\ pc = "page1"
    /\ outcome' = [outcome EXCEPT ![1] = PageOutcome(comments_count)]
    /\ IF branch = "paged" /\ total_pages > 1
         THEN /\ pc' = "loop"
              /\ page_num' = 2
              /\ no_new_comments_pages' = IF comments_count = 0 THEN 1 ELSE 0
              /\ UNCHANGED result
         ELSE /\ pc' = "returned"
              /\ result' = comments_data
              /\ UNCHANGED << page_num, no_new_comments_pages >>
    /\ comments_count' = 0
    /\ last' = "none"
    /\ page_hist' = NoPage
    /\ UNCHANGED << main_vars, admitting, call_vars, crawl_state, total_pages,
                    requests, probe >>

\* lines 80-97 and 303: the first page's blocks are used up; the loop starts at page 2 when
\* there is more than one page, else parse_profile returns
EndFirstPage ==
    /\ pc = "page1"
    /\ outcome' = [outcome EXCEPT ![1] = PageOutcome(comments_count)]
    /\ IF branch = "paged" /\ total_pages > 1
         THEN /\ pc' = "loop"
              /\ page_num' = 2
              /\ no_new_comments_pages' = 0
              /\ UNCHANGED result
         ELSE /\ pc' = "returned"
              /\ result' = comments_data
              /\ UNCHANGED << page_num, no_new_comments_pages >>
    /\ comments_count' = 0
    /\ last' = "none"
    /\ page_hist' = NoPage
    /\ UNCHANGED << main_vars, admitting, call_vars, crawl_state, total_pages,
                    requests, probe >>

\* ----------------------------------------------- _parse_all_pages_optimized

\* A failed page fetch ending the crawl the way a first-page failure does.
PageFetchFailsAborts ==
    /\ pc = "loop"
    /\ page_num <= total_pages
    /\ requests' = Append(requests,
                          Request(page_num, GetPageUrl(base_comments_url, page_num)))
    /\ outcome' = [outcome EXCEPT ![page_num] = "failed"]
    /\ result' = EmptyDict
    /\ pc' = "returned"
    /\ UNCHANGED << main_vars, admitting, call_vars, crawl_state, loop_vars,
                    comments_count, last, probe, page_hist >>

\* lines 200-208 and 224-226: the page's session.get raises
PageFetchFails ==
    /\ pc = "loop"
    /\ page_num <= total_pages
    /\ requests' = Append(requests,
                          Request(page_num, GetPageUrl(base_comments_url, page_num)))
    /\ outcome' = [outcome EXCEPT ![page_num] = "failed"]
    /\ page_num' = page_num + 1
    /\ UNCHANGED << pc, main_vars, admitting, call_vars, crawl_state, total_pages,
                    no_new_comments_pages, comments_count, result,
                    last, probe, page_hist >>

\* A page's parse error setting the counter back to 0, as an admitting page
\* does.
PageParseErrorResets ==
    /\ pc = "loop"
    /\ page_num <= total_pages
    /\ requests' = Append(requests,
                          Request(page_num, GetPageUrl(base_comments_url, page_num)))
    /\ outcome' = [outcome EXCEPT ![page_num] = "error"]
    /\ page_num' = page_num + 1
    /\ no_new_comments_pages' = 0
    /\ UNCHANGED << pc, main_vars, admitting, call_vars, crawl_state, total_pages,
                    comments_count, result, last, probe, page_hist >>

\* lines 211 and 227-229: the page is fetched but cannot be turned into a soup
PageParseError ==
    /\ pc = "loop"
    /\ page_num <= total_pages
    /\ requests' = Append(requests,
                          Request(page_num, GetPageUrl(base_comments_url, page_num)))
    /\ outcome' = [outcome EXCEPT ![page_num] = "error"]
    /\ page_num' = page_num + 1
    /\ UNCHANGED << pc, main_vars, admitting, call_vars, crawl_state, total_pages,
                    no_new_comments_pages, comments_count, result,
                    last, probe, page_hist >>

\* lines 200-211 and 256-267: the page is fetched and
\* _parse_comments_from_html is about to walk its comment blocks
PageLoaded ==
    /\ pc = "loop"
    /\ page_num <= total_pages
    /\ requests' = Append(requests,
                          Request(page_num, GetPageUrl(base_comments_url, page_num)))
    /\ comments_count' = 0
    /\ page_hist' = PageStart(seen_comment_ids, total_comments)
    /\ pc' = "page"
    /\ UNCHANGED << main_vars, admitting, call_vars, crawl_state, loop_vars, result,
                    outcome, last, probe >>

\* The counter without the reset of line 220.
NextNoNewNoReset(count, no_new) == IF count = 0 THEN no_new + 1 ELSE no_new

\* lines 214-220: the counter after a page that admitted `count` comments
NextNoNew(count, no_new) == IF count = 0 THEN no_new + 1 ELSE 0

\* The break with a threshold of three pages instead of two.
StopsAfterThree(count, no_new) == count = 0 /\ no_new + 1 >= 3

\* line 216: the break
StopsAfter(count, no_new) == count = 0 /\ NextNoNew(count, no_new) >= 2

\* lines 211-222 and 303: the page's blocks are used up; break, or go on to the next page number
EndPage ==
    /\ pc = "page"
    /\ outcome' = [outcome EXCEPT ![page_num] = PageOutcome(comments_count)]
    /\ no_new_comments_pages' = NextNoNew(comments_count, no_new_comments_pages)
    /\ IF StopsAfter(comments_count, no_new_comments_pages)
         THEN /\ pc' = "returned"
              /\ result' = comments_data
              /\ UNCHANGED page_num
         ELSE /\ pc' = "loop"
              /\ page_num' = page_num + 1
              /\ UNCHANGED result
    /\ comments_count' = 0
    /\ last' = "none"
    /\ page_hist' = NoPage
    /\ UNCHANGED << main_vars, admitting, call_vars, crawl_state, total_pages,
                    requests, probe >>

\* lines 198 and 231, then 93-97: the range is used up, parse_profile returns
LoopDone ==
    /\ pc = "loop"
    /\ page_num > total_pages
    /\ pc' = "returned"
    /\ result' = comments_data
    /\ UNCHANGED << main_vars, admitting, call_vars, crawl_state, loop_vars, comments_count,
                    requests, outcome, last, probe, page_hist >>

\* a direct call of _get_page_url(page) on the parser object, at any moment
ProbePageUrl(page) ==
    /\ probe' = [asked |-> TRUE, base |-> base_comments_url, page |-> page,
                 url |-> GetPageUrl(base_comments_url, page)]
    /\ UNCHANGED << pc, main_vars, admitting, call_vars, crawl_state, loop_vars,
                    comments_count, result, requests, outcome, last, page_hist >>

\* ------------------------------------------------------- the crawl's inputs

CrawlProfiles ==
    { Url("https", Host, <<"id", "bob">>, << >>),
      Url("https", Host, <<"groups", "x">>, << >>) }

CrawlMaxPages == {0, 1, 2, DefaultMaxPages}

\* announced totals: none, one exact page, and the first comment of each page
CrawlCounts ==
    {0, comments_per_page}
      \cup { comments_per_page * (k - 1) + 1 : k \in 1..MaxListingPages }

\* first pages whose script announces the total and that carry no "all
\* comments" anchor and no profile data: the listing URL comes from the
\* requested URL's pattern, or not at all
CrawlMarkups ==
    { Markup(Strategy("ok", n), Strategy("absent", 0), NoHref,
             Strategy("absent", 0), "") : n \in CrawlCounts }

\* the blocks a page may hold: every admissible block, one block for each
\* text the filters turn away, and the two blocks that yield no record
CrawlBlocks ==
    { b \in AllBlocks :
        \/ b.kind # "ok"
        \/ b.text = <<WS, "hi", WS>>
        \/ b.user = "ann" /\ b.idattr = <<"c1">> }

Next ==
    \/ \E url \in CrawlProfiles, mp \in CrawlMaxPages : FirstFetchFails(url, mp)
    \/ \E url \in CrawlProfiles, mp \in CrawlMaxPages : FirstPageError(url, mp)
    \/ \E url \in CrawlProfiles, mp \in CrawlMaxPages, m \in CrawlMarkups :
          FirstPageLoaded(url, mp, m)
    \/ \E b \in CrawlBlocks : ParseBlock(b)
    \/ EndFirstPage
    \/ PageFetchFails
    \/ PageParseError
    \/ PageLoaded
    \/ EndPage
    \/ LoopDone

Spec == Init /\ [][Next]_vars

\* --------------------------------------- the crawl over many listing URLs

\* Listing URLs of every shape reach _get_page_url through the href of the
\* "all comments" anchor: blank values, repeated keys, a page parameter.
QueryPairs ==
    { <<"p", "3">>, <<"l", "">>, <<"l", "en">>, <<"l", "ru">> }

Queries == UNION { [1..n -> QueryPairs] : n \in 0..MaxQueryLen }

UrlProfiles == { Url("https", Host, <<"id", "bob">>, << >>) }

UrlMaxPages == {DefaultMaxPages}

\* none, two pages, three pages
UrlCounts == {0, comments_per_page + 1, 2 * comments_per_page + 1}

UrlHrefs ==
    { RootRelHref(<<"id", "bob", "allcomments">>, q) : q \in Queries }
      \cup { AbsHref(Url("http", Host, <<"profiles", "765", "allcomments">>, q)) :
               q \in Queries }

UrlMarkups ==
    { Markup(Strategy("ok", n), Strategy("nocount", 0), h,
             Strategy("absent", 0), "") : n \in UrlCounts, h \in UrlHrefs }

UrlBlocks == { Block("ok", "ann", <<"comment_", "c1">>, <<WS, "hi", WS>>, "t1") }

NextUrl ==
    \/ \E url \in UrlProfiles, mp \in UrlMaxPages : FirstFetchFails(url, mp)
    \/ \E url \in UrlProfiles, mp \in UrlMaxPages : FirstPageError(url, mp)
    \/ \E url \in UrlProfiles, mp \in UrlMaxPages, m \in UrlMarkups :
          FirstPageLoaded(url, mp, m)
    \/ \E b \in UrlBlocks : ParseBlock(b)
    \/ EndFirstPage
    \/ PageFetchFails
    \/ PageParseError
    \/ PageLoaded
    \/ EndPage
    \/ LoopDone
    \/ \E page \in 1..MaxProbePage : ProbePageUrl(page)

SpecUrl == Init /\ [][NextUrl]_vars

\* =================================================================== claims

\* every place a record is stored at: <<user, index>>
Positions(data) ==
    UNION { { <<u, i>> : i \in 1..Len(data[u].comments) } : u \in DOMAIN data }

RecordAt(data, pos) == data[pos[1]].comments[pos[2]]

StoredIds(data) == { RecordAt(data, pos).comment_id : pos \in Positions(data) }

\* C1: a commentId is admitted at most once over the whole crawl - no two
\* stored records share a commentId, whatever their other fields - the ids
\* marked seen are exactly the ids of the stored records, and totalComments
\* equals |seenIds| in every state between block admissions.
C1_Deduplication ==
    /\ \A p1 \in Positions(comments_data), p2 \in Positions(comments_data) :
          RecordAt(comments_data, p1).comment_id
              = RecordAt(comments_data, p2).comment_id => p1 = p2
    /\ StoredIds(comments_data) = seen_comment_ids
    /\ total_comments = Cardinality(seen_comment_ids)

\* a block of a later page has just been rejected as already seen, with two
\* distinct ids admitted before it
C1_Witness ==
    /\ pc = "page"
    /\ last = "seen"
    /\ Cardinality(seen_comment_ids) = 2

\* C2: every user key of the aggregate mapping has count = length(comments)
\* and holds only records whose user field is that key, in the live mapping
\* and in the mapping parse_profile returned.
AggregateOk(data) ==
    \A u \in DOMAIN data :
        /\ data[u].count = Len(data[u].comments)
        /\ \A i \in 1..Len(data[u].comments) : data[u].comments[i].user = u

C2_AggregateInvariant == AggregateOk(comments_data) /\ AggregateOk(result)

\* both users hold records, one of them two, after a failed page and a page
\* that admitted nothing
C2_Witness ==
    /\ pc = "returned"
    /\ DOMAIN result = Users
    /\ \E u \in Users : result[u].count = 2
    /\ \E k \in Pages : outcome[k] = "failed"
    /\ \E k \in Pages : outcome[k] = "empty"

\* the page numbers requested so far
Requested == { requests[i].page : i \in 1..Len(requests) }

\* C3: once two consecutive pages k, k+1 of the loop (k >= 2) were each
\* fetched and each admitted nothing, the loop has stopped and no page
\* after k+1 is fetched.
C3_ExhaustionStop ==
    \A k \in 2..(MaxListingPages - 1) :
        (outcome[k] = "empty" /\ outcome[k + 1] = "empty")
            => /\ pc = "returned"
               /\ \A j \in Pages : j > k + 1 => j \notin Requested /\ outcome[j] = "none"

\* pages 3 and 4 admitted nothing and page 5, though within the page count,
\* was not fetched
C3_Witness ==
    /\ outcome[2] = "new"
    /\ outcome[3] = "empty"
    /\ outcome[4] = "empty"
    /\ total_pages = 5
    /\ 5 \notin Requested

\* C4: no stored record and no seen id comes from a block whose text is
\* empty, whitespace-only or the system placeholder, and rejecting such a
\* block changes neither seenIds nor totalComments nor the aggregates.
NoFilteredStored ==
    /\ \A pos \in Positions(comments_data) :
          /\ ~IsEmptyText(RecordAt(comments_data, pos).comment_text)
          /\ ~IsSystemText(RecordAt(comments_data, pos).comment_text)
    /\ seen_comment_ids \subseteq StoredIds(comments_data)

RejectionKeepsState ==
    (pc \in {"page1", "page"} /\ pc' = pc /\ last' \in {"empty", "system"})
        => UNCHANGED crawl_state

C4_Filtering == []NoFilteredStored /\ [][RejectionKeepsState]_vars

\* a placeholder block has just been rejected on a page that admitted a
\* comment before it
C4_Witness ==
    /\ last = "system"
    /\ comments_count = 1
    /\ total_comments = 1

\* C5: when the first fetch fails, parse_profile returns the empty mapping
\* as a value, fetches nothing more and admits nothing.
C5_FirstFetchFatal ==
    outcome[1] = "failed"
        => /\ pc = "returned"
           /\ result = EmptyDict
           /\ Len(requests) = 1
           /\ \A k \in Pages : k >= 2 => outcome[k] = "none"
           /\ seen_comment_ids = {}
           /\ total_comments = 0
           /\ comments_data = EmptyDict

\* the first fetch has failed and the call is over
C5_Witness == outcome[1] = "failed" /\ pc = "returned" /\ requests # << >>

\* C6: a failed fetch of a page k >= 2 changes no crawl state, the loop goes
\* on to page k+1 when k < totalPages, and the mapping returned holds what
\* the crawl has admitted.
FailedPageSkipped ==
    \A k \in Pages :
        (k >= 2 /\ outcome[k] = "failed")
            => /\ k < total_pages
                    => \/ (k + 1) \in Requested
                       \/ pc = "loop" /\ page_num = k + 1
               /\ pc = "returned" => result = comments_data

FailedPageKeepsState ==
    (pc = "loop" /\ page_num <= total_pages /\ outcome'[page_num] = "failed")
        => /\ UNCHANGED crawl_state
           /\ pc' = "loop"
           /\ page_num' = page_num + 1

C6_LaterFetchNonFatal == []FailedPageSkipped /\ [][FailedPageKeepsState]_vars

\* page 2 failed between two pages that admitted comments, and the mapping
\* returned holds the records of both
C6_Witness ==
    /\ pc = "returned"
    /\ outcome[1] = "new"
    /\ outcome[2] = "failed"
    /\ outcome[3] = "new"
    /\ Cardinality(Positions(result)) >= 2

\* C7: on the paged branch totalPages is ceil(totalCount / 50) clamped to
\* maxPages for every maxPages (0 included), no page beyond totalPages is
\* fetched, and the pages processed never exceed maxPages.
C7_PageLimit ==
    branch = "paged"
        => /\ total_pages = Min(CeilDiv(total_count, comments_per_page), max_pages)
           /\ \A j \in Requested : j >= 2 => j <= total_pages
           /\ Cardinality(Requested) <= max_pages

\* C8: when the total count is 0, or is positive with no listing URL, the
\* crawl makes exactly one fetch (the profile URL), parses the first page
\* once, fetches no later page and returns what the first page admitted.
C8_FirstPageOnly ==
    (/\ pc # "idle"
     /\ outcome[1] \notin {"failed", "error"}
     /\ (total_count = 0 \/ base_comments_url = NoUrl))
        => /\ requests = << Request(1, profile_url) >>
           /\ \A k \in Pages : k >= 2 => outcome[k] = "none"
           /\ pc \in {"page1", "returned"}
           /\ pc = "returned"
                => /\ result = comments_data
                   /\ outcome[1] = PageOutcome(total_comments)

\* a total was announced, no listing URL was found, and the call returned
\* the comment of the first page
C8_Witness ==
    /\ pc = "returned"
    /\ total_count > 0
    /\ base_comments_url = NoUrl
    /\ outcome[1] = "new"
    /\ Cardinality(Positions(result)) = 1

\* the values a query gives key k, in the order written
ValuesOf(q, k) ==
    LET ks == SelectSeq(q, LAMBDA kv : kv[1] = k)
    IN [i \in 1..Len(ks) |-> ks[i][2]]

KeysOf(q) == { q[i][1] : i \in 1..Len(q) }

HasPageParam(u) == "p" \in KeysOf(u.query)

\* url is base with p set to page and nothing else touched
BuiltFrom(base, page, url) ==
    /\ url.scheme = base.scheme
    /\ url.netloc = base.netloc
    /\ url.path = base.path
    /\ ValuesOf(url.query, "p") = << ToString(page) >>
    /\ \A k \in KeysOf(base.query) \ {"p"} :
          ValuesOf(url.query, k) = ValuesOf(base.query, k)

\* C9: for every listing URL and every page number n > 1 the built URL
\* keeps scheme, host and path, has p = n, and keeps every other query
\* parameter with its value - blank values and repeated keys included.
C9_PreservesParams ==
    /\ \A i \in 2..Len(requests) :
          BuiltFrom(base_comments_url, requests[i].page, requests[i].url)
    /\ (probe.asked /\ probe.page > 1 /\ probe.base # NoUrl)
          => BuiltFrom(probe.base, probe.page, probe.url)

\* C10: _get_page_url(1) returns a listing URL that has no page parameter
\* unchanged; the URL built for a (listing URL, page number) is the same
\* whenever it is built - by the loop or by a direct call, before or after
\* any fetches and admissions - and a direct call changes no crawl state.
PageUrlStable ==
    /\ (probe.asked /\ probe.page = 1 /\ ~HasPageParam(probe.base))
          => probe.url = probe.base
    /\ \A i \in 2..Len(requests) :
          (probe.asked /\ probe.base = base_comments_url
                       /\ probe.page = requests[i].page)
              => probe.url = requests[i].url

ProbeIsPure ==
    /\ probe' # probe
          => UNCHANGED << pc, main_vars, admitting, call_vars, crawl_state, loop_vars,
                          comments_count, result, requests, outcome, last, page_hist >>
    /\ (probe.asked /\ probe'.base = probe.base /\ probe'.page = probe.page)
          => probe'.url = probe.url

C10_PageOneAndDeterminism == []PageUrlStable /\ [][ProbeIsPure]_vars

\* page 1 was asked for a listing URL that has a blank-valued parameter and
\* no page parameter, after the loop had fetched page 2 and admitted a comment
C10_Witness ==
    /\ probe.asked
    /\ probe.page = 1
    /\ probe.base # NoUrl
    /\ probe.base = base_comments_url
    /\ ~HasPageParam(probe.base)
    /\ \E i \in 1..Len(probe.base.query) : probe.base.query[i][2] = ""
    /\ 2 \in Requested
    /\ total_comments = 1

\* ------------------------------------------- two calls on one parser object

\* parse_profile called again on the object whose earlier call has returned
\* (lines 37-50): the call's locals start over, and nothing in lines 37-50
\* touches what __init__ put on the object
CallAgain ==
    /\ pc = "returned"
    /\ pc' = "idle"
    /\ max_pages' = DefaultMaxPages
    /\ total_count' = 0
    /\ branch' = "none"
    /\ total_pages' = 0
    /\ page_num' = 0
    /\ no_new_comments_pages' = 0
    /\ result' = EmptyDict
    /\ requests' = << >>
    /\ outcome' = [p \in Pages |-> "none"]
    /\ first_markup' = << >>
    /\ UNCHANGED << main_vars, admitting, profile_url, base_comments_url,
                    crawl_state, comments_count, last, probe, page_hist >>

AgainProfiles == { Url("https", Host, <<"id", "bob">>, << >>) }

AgainMaxPages == {DefaultMaxPages}

\* none, one page, two pages
AgainCounts == {0, comments_per_page, comments_per_page + 1}

AgainMarkups ==
    { Markup(Strategy("ok", n), Strategy("absent", 0), NoHref,
             Strategy("absent", 0), "") : n \in AgainCounts }

AgainBlocks ==
    { Block("ok", "ann", <<"c1">>, <<WS, "hi", WS>>, "t1"),
      Block("ok", "bob", << >>, <<WS, "hi", WS>>, "t1"),
      Block("ok", "bob", << >>, << >>, "t1") }

NextAgain ==
    \/ \E url \in AgainProfiles, mp \in AgainMaxPages : FirstFetchFails(url, mp)
    \/ \E url \in AgainProfiles, mp \in AgainMaxPages : FirstPageError(url, mp)
    \/ \E url \in AgainProfiles, mp \in AgainMaxPages, m \in AgainMarkups :
          FirstPageLoaded(url, mp, m)
    \/ \E b \in AgainBlocks : ParseBlock(b)
    \/ EndFirstPage
    \/ PageFetchFails
    \/ PageParseError
    \/ PageLoaded
    \/ EndPage
    \/ LoopDone
    \/ CallAgain

SpecAgain == Init /\ [][NextAgain]_vars

\* C11: whenever a parse_profile call starts, on a new object or on one that
\* has crawled before, no id is seen, nothing is counted, no user has an
\* entry and no listing URL is set.
C11_FreshStatePerCall ==
    pc = "idle"
      => /\ seen_comment_ids = {}
         /\ total_comments = 0
         /\ comments_data = EmptyDict
         /\ base_comments_url = NoUrl

\* ------------------------------------------------ the crawl that is let run

\* line 50: the first session.get returns or raises (timeout=10)
FirstFetch ==
    \/ \E url \in CrawlProfiles, mp \in CrawlMaxPages : FirstFetchFails(url, mp)
    \/ \E url \in CrawlProfiles, mp \in CrawlMaxPages : FirstPageError(url, mp)
    \/ \E url \in CrawlProfiles, mp \in CrawlMaxPages, m \in CrawlMarkups :
          FirstPageLoaded(url, mp, m)

\* line 204: a later page's session.get returns or raises (timeout=10)
PageFetch == PageFetchFails \/ PageParseError \/ PageLoaded

\* a page's blocks: two that can be admitted, one that is turned away and
\* one that yields no record
LiveBlocks ==
    { Block("ok", "ann", <<"c1">>, <<WS, "hi", WS>>, "t1"),
      Block("ok", "bob", << >>, <<WS, "hi", WS>>, "t1"),
      Block("ok", "bob", << >>, <<WS>>, "t1"),
      Block("noauthor", "", <<"c1">>, <<"hi">>, "t1") }

NextLive ==
    \/ FirstFetch
    \/ \E b \in LiveBlocks : ParseBlock(b)
    \/ EndFirstPage
    \/ PageFetch
    \/ EndPage
    \/ LoopDone

\* parse_profile is called, every session.get returns or times out, every
\* page's list of blocks is finite (lines 269 and 303), and the interpreter
\* keeps running the loop
SpecLive ==
    /\ Init
    /\ [][NextLive]_vars
    /\ WF_vars(FirstFetch)
    /\ WF_vars(EndFirstPage)
    /\ WF_vars(PageFetch)
    /\ WF_vars(EndPage)
    /\ WF_vars(LoopDone)

\* how many of the pages 2, 3, ... have been requested
LaterFetches == Cardinality(Requested \ {1})

\* C12: parse_profile returns in the end, with the aggregate or with the
\* empty mapping; it requests at most total_pages - 1 of the later pages; and
\* it is never left by an exception.
C12_Termination ==
    /\ <>(pc = "returned")
    /\ [](pc = "returned" => result = comments_data \/ result = EmptyDict)
    /\ [](LaterFetches <= IF total_pages > 0 THEN total_pages - 1 ELSE 0)
    /\ [](pc \in {"idle", "page1", "loop", "page", "returned"})

\* a crawl over at least four pages that returned after all of them, one of
\* them failed and one of them parsed
C12_Witness ==
    /\ pc = "returned"
    /\ total_pages >= 4
    /\ LaterFetches = total_pages - 1
    /\ \E p, q \in Pages : outcome[p] = "failed" /\ outcome[q] = "new"

\* ------------------------------------------- the admission, line by line

\* lines 272-288: the block parses into a record that passes every test, and
\* its id is added to seen_comment_ids; the rest of the admission is to come
MarkSeen(b) ==
    LET comment_data == ParseSingleComment(b, hash_seed)
    IN /\ pc \in {"page1", "page"}
       /\ Verdict(comment_data, seen_comment_ids) = "admitted"
       /\ seen_comment_ids' = seen_comment_ids \cup {comment_data.comment_id}
       /\ admitting' = [step |-> 1, from |-> pc, data |-> comment_data]
       /\ pc' = "admitting"
       /\ UNCHANGED << main_vars, call_vars, comments_data, total_comments,
                       loop_vars, comments_count, result, requests, outcome,
                       last, probe, page_hist >>

\* lines 272-285: the block is turned away by one of the tests
TurnAway(b) ==
    /\ Verdict(ParseSingleComment(b, hash_seed), seen_comment_ids) # "admitted"
    /\ ParseBlock(b)

\* lines 290-291: comments_data[user]["count"] += 1, the defaultdict making
\* the user's entry when it is not there
CountUp ==
    LET user == admitting.data.user
        old == Entry(comments_data, user)
    IN /\ pc = "admitting"
       /\ admitting.step = 1
       /\ comments_data' =
            [u \in DOMAIN comments_data \cup {user} |->
               IF u = user THEN [old EXCEPT !.count = @ + 1]
               ELSE comments_data[u]]
       /\ admitting' = [admitting EXCEPT !.step = 2]
       /\ UNCHANGED << pc, main_vars, call_vars, seen_comment_ids,
                       total_comments, loop_vars, comments_count, result,
                       requests, outcome, last, probe, page_hist >>

\* line 292: comments_data[user]["comments"].append(comment_data)
AppendRecord ==
    LET user == admitting.data.user
    IN /\ pc = "admitting"
       /\ admitting.step = 2
       /\ comments_data' =
            [comments_data EXCEPT
               ![user].comments = Append(@, Stored(admitting.data))]
       /\ admitting' = [admitting EXCEPT !.step = 3]
       /\ UNCHANGED << pc, main_vars, call_vars, seen_comment_ids,
                       total_comments, loop_vars, comments_count, result,
                       requests, outcome, last, probe, page_hist >>

\* lines 293-294: self.total_comments += 1 and comments_count += 1; the loop
\* body is through
TotalUp ==
    /\ pc = "admitting"
    /\ admitting.step = 3
    /\ total_comments' = total_comments + 1
    /\ comments_count' = comments_count + 1
    /\ last' = "admitted"
    /\ page_hist' = Noted(page_hist, admitting.data)
    /\ pc' = admitting.from
    /\ admitting' = NoAdmission
    /\ UNCHANGED << main_vars, call_vars, seen_comment_ids, comments_data,
                    loop_vars, result, requests, outcome, probe >>

\* KeyboardInterrupt is raised between two lines of the crawl; no handler of
\* parser.py catches it (`except Exception`, lines 102, 227, 300), main's
\* does (main.py lines 100-101)
Interrupt ==
    /\ pc \in {"page1", "loop", "page", "admitting"}
    /\ pc' = "interrupted"
    /\ UNCHANGED << main_vars, admitting, call_vars, crawl_state, loop_vars,
                    comments_count, result, requests, outcome, last, probe,
                    page_hist >>

InterruptProfiles == { Url("https", Host, <<"id", "bob">>, << >>) }

InterruptMaxPages == {DefaultMaxPages}

\* one page, two pages
InterruptCounts == {1, comments_per_page + 1}

InterruptMarkups ==
    { Markup(Strategy("ok", n), Strategy("absent", 0), NoHref,
             Strategy("absent", 0), "") : n \in InterruptCounts }

InterruptBlocks ==
    { Block("ok", "ann", <<"c1">>, <<WS, "hi", WS>>, "t1"),
      Block("ok", "ann", << >>, <<WS, "hi", WS>>, "t1"),
      Block("ok", "bob", << >>, <<WS>>, "t1") }

NextInterrupt ==
    \/ \E url \in InterruptProfiles, mp \in InterruptMaxPages :
          FirstFetchFails(url, mp)
    \/ \E url \in InterruptProfiles, mp \in InterruptMaxPages :
          FirstPageError(url, mp)
    \/ \E url \in InterruptProfiles, mp \in InterruptMaxPages,
          m \in InterruptMarkups : FirstPageLoaded(url, mp, m)
    \/ \E b \in InterruptBlocks : MarkSeen(b)
    \/ \E b \in InterruptBlocks : TurnAway(b)
    \/ CountUp
    \/ AppendRecord
    \/ TotalUp
    \/ EndFirstPage
    \/ PageFetchFails
    \/ PageParseError
    \/ PageLoaded
    \/ EndPage
    \/ LoopDone
    \/ Interrupt

SpecInterrupt == Init /\ [][NextInterrupt]_vars

\* C13: once the crawl has been interrupted and main's handler has the
\* KeyboardInterrupt, every user's count is the length of the user's
\* comments, total_comments is the number of seen ids, and the stored
\* records are the seen ids' records.
C13_InterruptionSafety ==
    pc = "interrupted"
      => /\ \A u \in DOMAIN comments_data :
              comments_data[u].count = Len(comments_data[u].comments)
         /\ total_comments = Cardinality(seen_comment_ids)
         /\ StoredIds(comments_data) = seen_comment_ids

\* ------------------------------------------- the crawl over many first pages

ResolveProfiles == { Url("https", Host, <<"id", "bob">>, << >>) }

ResolveMaxPages == {DefaultMaxPages}

\* what the InitializeCommentThread script may be
ResolveScripts ==
    { Strategy(st, 0) : st \in {"absent", "nomatch", "badjson", "nokey", "badint"} }
      \cup { Strategy("ok", 0), Strategy("ok", comments_per_page + 1) }

\* what the "all comments" anchor's text may be
ResolveAnchors ==
    { Strategy("absent", 0), Strategy("nocount", 0),
      Strategy("ok", 2 * comments_per_page + 37) }

\* what the totalcount element may be
ResolveElems ==
    { Strategy("absent", 0), Strategy("badint", 0), Strategy("ok", 42) }

ResolveMarkups ==
    { Markup(sc, an, NoHref, el, "") :
        sc \in ResolveScripts, an \in ResolveAnchors, el \in ResolveElems }

ResolveBlocks ==
    { Block("ok", "ann", <<"c1">>, <<WS, "hi", WS>>, "t1"),
      Block("ok", "bob", << >>, <<WS>>, "t1") }

NextResolve ==
    \/ \E url \in ResolveProfiles, mp \in ResolveMaxPages : FirstFetchFails(url, mp)
    \/ \E url \in ResolveProfiles, mp \in ResolveMaxPages : FirstPageError(url, mp)
    \/ \E url \in ResolveProfiles, mp \in ResolveMaxPages, m \in ResolveMarkups :
          FirstPageLoaded(url, mp, m)
    \/ \E b \in ResolveBlocks : ParseBlock(b)
    \/ EndFirstPage
    \/ PageFetchFails
    \/ PageParseError
    \/ PageLoaded
    \/ EndPage
    \/ LoopDone

SpecResolve == Init /\ [][NextResolve]_vars

\* the method yields an integer
Yields(strategy) == strategy.st = "ok"

\* C14: the total the crawl works with is the script's when the script
\* yields an integer, else the anchor's when the anchor yields one, else the
\* totalcount element's when that yields one, else 0; and the resolver never
\* leaves parse_profile by an exception.
C14_ResolverFallback ==
    /\ pc # "raised"
    /\ branch # "none" =>
         LET m == first_markup
         IN /\ Yields(m.script) => total_count = m.script.n
            /\ ~Yields(m.script) /\ Yields(m.anchor) => total_count = m.anchor.n
            /\ ~Yields(m.script) /\ ~Yields(m.anchor) /\ Yields(m.elem)
                 => total_count = m.elem.n
            /\ ~Yields(m.script) /\ ~Yields(m.anchor) /\ ~Yields(m.elem)
                 => total_count = 0

\* a first page whose script and anchor are there and yield nothing and
\* whose totalcount element reads 42
C14_Witness ==
    /\ branch # "none"
    /\ first_markup.script.st = "badjson"
    /\ first_markup.anchor.st = "nocount"
    /\ first_markup.elem = Strategy("ok", 42)
    /\ total_count = 42

\* ----------------------------------------------------- the pages' counts

\* C15: while a page is parsed, and so when its parse returns, the page's
\* count is what the page has added to total_comments, what it has added to
\* seen_comment_ids, and the number of distinct ids among its blocks so far
\* that have a non-empty, non-placeholder text and were not seen before the
\* page.
C15_PerPageCount ==
    pc \in {"page1", "page"}
      => /\ comments_count = total_comments - page_hist.total
         /\ page_hist.seen \subseteq seen_comment_ids
         /\ comments_count = Cardinality(seen_comment_ids \ page_hist.seen)
         /\ comments_count = Cardinality(page_hist.fresh)

\* a later page, parsed in a crawl that had seen ids before it, has admitted
\* one record and has just turned away a block whose id was seen
C15_Witness ==
    /\ pc = "page"
    /\ page_hist.seen # {}
    /\ comments_count = 1
    /\ last = "seen"

\* ------------------------------------------------- the program run again

\* main.py lines 53-64, the process's end, and main.py lines 8-41 in a new
\* process: a crawl that returned records has them written to the JSON file,
\* one that returned none leaves the file alone; the new process draws its
\* own salt and constructs its own parser
Restart ==
    /\ pc = "returned"
    /\ saved' = IF result # EmptyDict THEN result ELSE saved
    /\ hash_seed' \in HashSeeds
    /\ pc' = "idle"
    /\ profile_url' = NoUrl
    /\ base_comments_url' = NoUrl
    /\ comments_data' = EmptyDict
    /\ total_comments' = 0
    /\ seen_comment_ids' = {}
    /\ max_pages' = DefaultMaxPages
    /\ total_count' = 0
    /\ branch' = "none"
    /\ total_pages' = 0
    /\ page_num' = 0
    /\ no_new_comments_pages' = 0
    /\ result' = EmptyDict
    /\ requests' = << >>
    /\ outcome' = [p \in Pages |-> "none"]
    /\ first_markup' = << >>
    /\ UNCHANGED << cli_url, admitting, comments_count, last, probe, page_hist >>

\* the first process, with any salt
InitRuns ==
    /\ Constructed(HashSeeds)
    /\ cli_url = NoUrl
    /\ saved = EmptyDict

RunsProfiles == { Url("https", Host, <<"id", "bob">>, << >>) }

RunsMaxPages == {DefaultMaxPages}

\* none, two pages
RunsCounts == {0, comments_per_page + 1}

RunsMarkups ==
    { Markup(Strategy("ok", n), Strategy("absent", 0), NoHref,
             Strategy("absent", 0), "") : n \in RunsCounts }

\* blocks without an id attribute, and one with
RunsBlocks ==
    { Block("ok", "ann", << >>, <<WS, "hi", WS>>, "t1"),
      Block("ok", "bob", << >>, <<"hi", WS, SYS>>, "t1"),
      Block("ok", "bob", <<"comment_", "c1">>, <<WS, "hi", WS>>, "t1") }

NextRuns ==
    \/ \E url \in RunsProfiles, mp \in RunsMaxPages : FirstFetchFails(url, mp)
    \/ \E url \in RunsProfiles, mp \in RunsMaxPages : FirstPageError(url, mp)
    \/ \E url \in RunsProfiles, mp \in RunsMaxPages, m \in RunsMarkups :
          FirstPageLoaded(url, mp, m)
    \/ \E b \in RunsBlocks : ParseBlock(b)
    \/ EndFirstPage
    \/ PageFetchFails
    \/ PageParseError
    \/ PageLoaded
    \/ EndPage
    \/ LoopDone
    \/ Restart

SpecRuns == InitRuns /\ [][NextRuns]_vars

\* the record's id is of the form line 390 gives: user, "_", timestamp, "_"
\* and the hash's digits
IsSynthesized(r) ==
    /\ Len(r.comment_id) = 5
    /\ SubSeq(r.comment_id, 1, 4) = << r.user, "_", r.timestamp, "_" >>

\* C16: a record stored by this run under a synthesized id and a record of
\* the same user, timestamp and comment text that the previous run stored
\* under a synthesized id have the same id.
C16_SynthesizedIdStable ==
    \A p \in Positions(saved), q \in Positions(comments_data) :
        LET before == RecordAt(saved, p)
            now == RecordAt(comments_data, q)
        IN /\ IsSynthesized(before)
           /\ IsSynthesized(now)
           /\ before.user = now.user
           /\ before.timestamp = now.timestamp
           /\ before.comment_text = now.comment_text
           => before.comment_id = now.comment_id

\* --------------------------------------------------------- main's prompt

\* What the user types at the URL prompt, after strip(): the scheme typed
\* ("" when none), the host, and the path split at its slashes (a trailing
\* slash leaves a last segment "").
NoInput == NoUrl

\* main.py lines 25-27: "https://" put before a URL that starts with
\* neither "http://" nor "https://"; a URL typed with another scheme then
\* has that scheme and its "//" where the host is looked for
WithScheme(input) ==
    IF input.scheme \in {"http", "https"} THEN input
    ELSE IF input.scheme = "" THEN [input EXCEPT !.scheme = "https"]
    ELSE Url("https", input.scheme, <<"", input.netloc>> \o input.path,
             input.query)

\* main.py lines 30-32: re.match of
\* https?://steamcommunity\.com/(id|profiles)/[^/]+/? at the URL's start;
\* what follows the match is not looked at
MatchesProfilePattern(u) ==
    /\ u.scheme \in {"http", "https"}
    /\ u.netloc = Host
    /\ Len(u.path) >= 2
    /\ u.path[1] \in {"id", "profiles"}
    /\ u.path[2] # ""

\* main.py lines 19-41: the URL is read; an empty one and one that does not
\* match are turned down and main returns, else the parser is constructed
ReadUrl(input) ==
    /\ pc = "main"
    /\ cli_url' = IF input = NoInput THEN NoUrl ELSE WithScheme(input)
    /\ pc' = IF input # NoInput /\ MatchesProfilePattern(WithScheme(input))
               THEN "idle" ELSE "rejected"
    /\ UNCHANGED << hash_seed, saved, admitting, call_vars, crawl_state,
                    loop_vars, comments_count, result, requests, outcome,
                    last, probe, page_hist >>

\* main is started: nothing is read yet and no parser exists; the values the
\* parser will be constructed with (lines 14-35) are in place
InitMain ==
    /\ pc = "main"
    /\ hash_seed = 1
    /\ cli_url = NoUrl
    /\ saved = EmptyDict
    /\ profile_url = NoUrl
    /\ base_comments_url = NoUrl
    /\ comments_data = EmptyDict
    /\ total_comments = 0
    /\ seen_comment_ids = {}
    /\ max_pages = DefaultMaxPages
    /\ total_count = 0
    /\ branch = "none"
    /\ total_pages = 0
    /\ page_num = 0
    /\ no_new_comments_pages = 0
    /\ comments_count = 0
    /\ result = EmptyDict
    /\ requests = << >>
    /\ outcome = [p \in Pages |-> "none"]
    /\ last = "none"
    /\ probe = NoProbe
    /\ admitting = NoAdmission
    /\ first_markup = << >>
    /\ page_hist = NoPage

MainInputs ==
    { NoInput,
      Url("", Host, <<"id", "bob">>, << >>),
      Url("https", Host, <<"id", "bob", "">>, << >>),
      Url("http", Host, <<"profiles", "765">>, << >>),
      Url("https", Host, <<"groups", "x">>, << >>),
      Url("https", Host, <<"id">>, << >>),
      Url("https", Host, <<"id", "">>, << >>),
      Url("https", "example.com", <<"id", "bob">>, << >>),
      Url("ftp", Host, <<"id", "bob">>, << >>),
      Url("https", Host, <<"id", "bob", "badges">>, << >>),
      Url("", Host, <<"profiles", "765", "">>, << >>) }

MainMaxPages == {DefaultMaxPages}

\* none, two pages
MainCounts == {0, comments_per_page + 1}

MainMarkups ==
    { Markup(Strategy("ok", n), Strategy("absent", 0), NoHref,
             Strategy("absent", 0), "") : n \in MainCounts }

MainBlocks ==
    { Block("ok", "ann", <<"c1">>, <<WS, "hi", WS>>, "t1"),
      Block("ok", "bob", << >>, <<WS>>, "t1") }

\* main.py line 49: parse_profile is called with the URL that was read
NextMain ==
    \/ \E input \in MainInputs : ReadUrl(input)
    \/ \E mp \in MainMaxPages : FirstFetchFails(cli_url, mp)
    \/ \E mp \in MainMaxPages : FirstPageError(cli_url, mp)
    \/ \E mp \in MainMaxPages, m \in MainMarkups : FirstPageLoaded(cli_url, mp, m)
    \/ \E b \in MainBlocks : ParseBlock(b)
    \/ EndFirstPage
    \/ PageFetchFails
    \/ PageParseError
    \/ PageLoaded
    \/ EndPage
    \/ LoopDone

SpecMain == InitMain /\ [][NextMain]_vars

\* the form the input contract names: the scheme, the host, id or profiles,
\* one segment, at most a slash after it, and no more
IsProfileUrl(u) ==
    /\ u.scheme \in {"http", "https"}
    /\ u.netloc = Host
    /\ Len(u.path) \in {2, 3}
    /\ u.path[1] \in {"id", "profiles"}
    /\ u.path[2] # ""
    /\ Len(u.path) = 3 => u.path[3] = ""
    /\ u.query = << >>

\* C17: once the URL prompt is answered, an empty URL and a URL that, with
\* its scheme added, is not a profile URL are rejected; and after a
\* rejection nothing is ever fetched.
C17_ValidationBeforeNetwork ==
    /\ pc # "main" /\ ~IsProfileUrl(cli_url) => pc = "rejected"
    /\ pc = "rejected" => requests = << >>

\* ------------------------------------------------------ the crawl's order

\* the first request is page 1's, the second page 2's, the page numbers
\* requested grow strictly, and every page requested before the latest one
\* is over and done with
Sequential ==
    /\ Len(requests) >= 1 => requests[1].page = 1
    /\ Len(requests) >= 2 => requests[2].page = 2
    /\ \A i, j \in 1..Len(requests) : i < j => requests[i].page < requests[j].page
    /\ \A i \in 1..(Len(requests) - 1) : outcome[requests[i].page] # "none"
    /\ pc \in {"page1", "page"} => outcome[requests[Len(requests)].page] = "none"

\* a step that changes the aggregates is taken while a page is parsed and
\* puts one record after the last of one user's comments, moving no other
AppendsInOrder ==
    comments_data' # comments_data
      => /\ pc \in {"page1", "page"}
         /\ DOMAIN comments_data \subseteq DOMAIN comments_data'
         /\ \E u \in DOMAIN comments_data' :
              /\ Len(comments_data'[u].comments)
                   = Len(Entry(comments_data, u).comments) + 1
              /\ \A i \in 1..Len(Entry(comments_data, u).comments) :
                   comments_data'[u].comments[i] = comments_data[u].comments[i]
              /\ \A v \in DOMAIN comments_data \ {u} :
                   comments_data'[v] = comments_data[v]

\* C18: pages are requested one after the other, page 1 first and then
\* 2, 3, ... in growing order, none twice, each only when the one before is
\* done; and each user's comments are in the order of their discovery.
C18_SequentialCrawl == []Sequential /\ [][AppendsInOrder]_vars

\* page 4 is being parsed after a failed page 2, and a user holds records
\* of two admissions
C18_Witness ==
    /\ pc = "page"
    /\ Len(requests) = 4
    /\ outcome[2] = "failed"
    /\ \E u \in DOMAIN comments_data : Len(comments_data[u].comments) >= 2

\* ------------------------------------------------------- the early stop

\* the loop of a paged crawl is over and page total_pages was never requested
StoppedEarly ==
    /\ pc = "returned"
    /\ branch = "paged"
    /\ total_pages \notin Requested

\* the highest page number requested
LastRequested == CHOOSE p \in Requested : \A q \in Requested : q <= p

\* a page that admitted nothing, right after a page that admitted something,
\* does not end the crawl: the page after it is requested, or is the next
\* to be
SingleEmptyGoesOn ==
    \A k \in 2..(MaxListingPages - 1) :
        /\ branch = "paged"
        /\ outcome[k - 1] = "new"
        /\ outcome[k] = "empty"
        /\ k < total_pages
        => \/ k + 1 \in Requested
           \/ pc = "loop" /\ page_num = k + 1

\* C19 as stated: after an early stop the two highest pages requested were
\* both fetched and parsed and both admitted nothing; and a single empty
\* page between productive pages does not stop the crawl.
C19_EarlyStopOnExhaustion ==
    /\ StoppedEarly
         => /\ LastRequested >= 3
            /\ outcome[LastRequested] = "empty"
            /\ outcome[LastRequested - 1] = "empty"
    /\ SingleEmptyGoesOn

\* C19, amended: after an early stop the highest page requested was parsed
\* and admitted nothing, and so did an earlier page of the loop, every page
\* between the two having failed (fetch or parse); and a single empty page
\* between productive pages does not stop the crawl.
C19_EarlyStopAmended ==
    /\ StoppedEarly
         => /\ LastRequested >= 3
            /\ outcome[LastRequested] = "empty"
            /\ \E j \in 2..(LastRequested - 1) :
                 /\ outcome[j] = "empty"
                 /\ \A i \in (j + 1)..(LastRequested - 1) :
                      outcome[i] \in {"failed", "error"}
    /\ SingleEmptyGoesOn

\* an early stop at page 4, after an empty page 2 and a failed page 3
C19_Witness ==
    /\ StoppedEarly
    /\ LastRequested = 4
    /\ outcome[2] = "empty"
    /\ outcome[3] = "failed"
    /\ outcome[4] = "empty"

\* ----------------------------------------------------- the failing block

\* a loop body run on a block that yields no record (no author link, or an
\* exception while its fields are read) leaves the crawl where it is, in
\* the page's loop, with nothing admitted and nothing counted
FailedBlockSkipped ==
    pc \in {"page1", "page"} /\ last' = "absent"
      => /\ pc' = pc
         /\ UNCHANGED << crawl_state, comments_count, loop_vars, result,
                         requests, outcome >>

\* after such a block the crawl is in the page's loop, where the next block
\* is parsed whatever it is
PageGoesOn == last = "absent" => pc \in {"page1", "page"}

\* C20: a block whose parse fails adds nothing to seen_comment_ids,
\* total_comments or the aggregates, the blocks before it keep what they
\* added, the blocks after it are still parsed and offered, and the page
\* parse does not abort.
C20_BlockFailureIsolated == []PageGoesOn /\ [][FailedBlockSkipped]_vars

\* a block has just failed on a later page that had admitted a comment
\* before it
C20_Witness ==
    /\ pc = "page"
    /\ last = "absent"
    /\ comments_count = 1
    /\ total_comments >= 2

\* ------------------------------------------- the failed page and the counter

\* the page's fetch raised, or its parse did
Failed(p) == outcome[p] \in {"failed", "error"}

\* the step in which a page of the loop fails leaves the counter as it was
\* and goes on with the loop
FailureKeepsCounter ==
    (pc = "loop" /\ page_num <= total_pages
       /\ outcome'[page_num] \in {"failed", "error"})
        => /\ no_new_comments_pages' = no_new_comments_pages
           /\ pc' = "loop"

\* an empty page k, a failed page k+1 and an empty page k+2: the loop has
\* stopped and no page after k+2 is requested
EmptyFailedEmptyStops ==
    \A k \in 2..(MaxListingPages - 2) :
        outcome[k] = "empty" /\ Failed(k + 1) /\ outcome[k + 2] = "empty"
          => /\ pc = "returned"
             /\ \A j \in Pages : j > k + 2 => j \notin Requested

\* two failed pages in a row with a page left after them: that page is
\* requested, or is the next to be
TwoFailedGoOn ==
    \A k \in 2..(MaxListingPages - 2) :
        Failed(k) /\ Failed(k + 1) /\ k + 1 < total_pages
          => \/ k + 2 \in Requested
             \/ pc = "loop" /\ page_num = k + 2

\* C21: a page of the loop whose fetch or parse raises neither increments
\* nor resets the empty-page counter; so an empty page, a failed page and an
\* empty page in a row stop the crawl, and two failed pages in a row do not.
C21_FailureLeavesCounter ==
    /\ [](EmptyFailedEmptyStops /\ TwoFailedGoOn)
    /\ [][FailureKeepsCounter]_vars

\* five pages to crawl: page 2 admitted nothing, page 3 could not be
\* parsed, page 4 admitted nothing, and page 5 was not requested
C21_Witness ==
    /\ pc = "returned"
    /\ total_pages = 5
    /\ outcome[2] = "empty"
    /\ outcome[3] = "error"
    /\ outcome[4] = "empty"
    /\ 5 \notin Requested

\* ---------------------------------------------- page 1 and the counter

\* the loop is about to request page 2: the counter is 0
CounterStartsAtZero ==
    pc = "loop" /\ page_num = 2 => no_new_comments_pages = 0

\* pages 1 and 2 admitted nothing and there is a page 3: page 3 is
\* requested, or is the next to be
EmptyFirstTwoGoOn ==
    /\ branch = "paged"
    /\ total_pages >= 3
    /\ outcome[1] = "empty"
    /\ outcome[2] = "empty"
    => \/ 3 \in Requested
       \/ pc = "loop" /\ page_num = 3

\* C22: the empty-page counter is 0 when the loop starts at page 2, whatever
\* page 1 admitted; a crawl of three pages or more whose pages 1 and 2 both
\* admit nothing still requests page 3; and no crawl stops early before
\* page 3.
C22_FirstPageNotCounted ==
    /\ CounterStartsAtZero
    /\ EmptyFirstTwoGoOn
    /\ StoppedEarly => LastRequested >= 3

\* pages 1 and 2 admitted nothing, and page 3 has been requested
C22_Witness ==
    /\ total_pages >= 3
    /\ outcome[1] = "empty"
    /\ outcome[2] = "empty"
    /\ 3 \in Requested

====
